---- MODULE Spec2Model ----
(***************************************************************************)
(* Ksenia Lares sensor platform (custom_components/ksenia_lares/sensor.py) *)
(*                                                                         *)
(* async_setup_entry builds the catalog of KseniaSensorEntity objects from *)
(* five snapshots fetched from the WebSocket manager; every entity reduces *)
(* its record to (state, attributes) in __init__ and again in async_update.*)
(*                                                                         *)
(* Python values are tagged records:                                       *)
(*   None  [t |-> "none"]                                                  *)
(*   str   [t |-> "str",   v |-> sequence of one-character strings]        *)
(*   float [t |-> "float", neg, man, exp]: the IEEE-754 double              *)
(*         (-1)^neg * man * 2^exp, man the 53 bits of its significand and  *)
(*         7 zero bits as four digits in base 2^15, most significant       *)
(*         first, the top bit set; man = <<>> for 0.0 and -0.0             *)
(*   dict  [t |-> "dict",  v |-> function from key to value]               *)
(*   list  [t |-> "list",  v |-> sequence of values]                       *)
(* A sensor record (the dict the manager returns) is the function of a     *)
(* dict value: key |-> value.                                              *)
(*                                                                         *)
(* The strings handed to float() are over digits, '.', '+', '-' and        *)
(* lower-case letters that form no exponent, "inf" or "nan", with at most  *)
(* nine digits, four of them decimals.                                     *)
(***************************************************************************)
EXTENDS Integers, Sequences, FiniteSets, TLC

VARIABLES
    setupPc,     \* position of async_setup_entry: the fetch it awaits, "add", "done", "raised"
    setupExc,    \* the exception that ended async_setup_entry ("none" while it has not raised)
    fetched,     \* async_setup_entry's locals domus, powerlines, partitions, zones, systems,
                 \* None before their assignment and once the function has ended
    fetchLog,    \* the manager calls async_setup_entry has made, in order
    entities,    \* the list `entities`: records [id, sensor_type, name, state, attributes]
    addCalls,    \* the calls of async_add_entities: each the entities handed over (indexes)
    upc,         \* per entity: "idle", or "await" while async_update awaits its fetch
    outcome,     \* per entity: how its last async_update ended
    origin,      \* per entity: category, ID and name as set by __init__ (history)
    lastSeen,    \* per entity: first record with its ID in the last snapshot that had one (history)
    source       \* per entity: the record its state and attributes were last assigned from (history)

vars == <<setupPc, setupExc, fetched, fetchLog, entities, addCalls, upc, outcome,
          origin, lastSeen, source>>

\* ------------------------------------------------------------------ bounds

MaxSnapLen == 2
MaxEntities == 2

\* ------------------------------------------------------------ Python values

PyNone == [t |-> "none"]
Str(s) == [t |-> "str", v |-> s]
Float(neg, man, exp) == [t |-> "float", neg |-> neg, man |-> man, exp |-> exp]
Dict(f) == [t |-> "dict", v |-> f]
List(q) == [t |-> "list", v |-> q]
EmptyMap == [k \in {} |-> PyNone]

\* bool(x)
Truthy(x) ==
    CASE x.t = "none" -> FALSE
      [] x.t = "str" -> x.v # <<>>
      [] x.t = "float" -> x.man # <<>>
      [] x.t = "dict" -> DOMAIN x.v # {}
      [] OTHER -> x.v # <<>>

\* d.get(k, default) on the function of a dict
Get(d, k, default) == IF k \in DOMAIN d THEN d[k] ELSE default

\* {**d, k1: v1, k2: v2}
Overlay(d, extra) ==
    [k \in DOMAIN d \cup DOMAIN extra |-> IF k \in DOMAIN extra THEN extra[k] ELSE d[k]]

Digits == {"0", "1", "2", "3", "4", "5", "6", "7", "8", "9"}

DigitVal(c) ==
    CASE c = "0" -> 0 [] c = "1" -> 1 [] c = "2" -> 2 [] c = "3" -> 3 [] c = "4" -> 4
      [] c = "5" -> 5 [] c = "6" -> 6 [] c = "7" -> 7 [] c = "8" -> 8 [] OTHER -> 9

RECURSIVE DigitsVal(_)
DigitsVal(s) ==
    IF s = <<>> THEN 0
    ELSE 10 * DigitsVal(SubSeq(s, 1, Len(s) - 1)) + DigitVal(s[Len(s)])

\* s.replace(c, "")
RemoveAll(s, c) == SelectSeq(s, LAMBDA x : x # c)

\* s.replace(c, "", 1)
RemoveFirst(s, c) ==
    IF \E i \in 1..Len(s) : s[i] = c
    THEN LET i == CHOOSE j \in 1..Len(s) : s[j] = c /\ \A k \in 1..(j - 1) : s[k] # c
         IN  SubSeq(s, 1, i - 1) \o SubSeq(s, i + 1, Len(s))
    ELSE s

\* s.isdigit()
IsDigit(s) == s # <<>> /\ \A i \in 1..Len(s) : s[i] \in Digits

\* ------------------------------------------------ float: IEEE-754 binary64
\* A number is held as limbs, its digits in base 2^LimbBits, most significant first.

\* the bits of the significand of a double
Precision == 53

LimbBits == 15
Base == 2^LimbBits

\* the limbs of a significand, and the weight its last bit has in the last of them
ManLimbs == (Precision + LimbBits - 1) \div LimbBits
Ulp == 2^(ManLimbs * LimbBits - Precision)

Zeros(n) == [i \in 1..n |-> 0]

\* 0.0 and -0.0
Zero(neg) == Float(neg, <<>>, 0)

IsZero(x) == x.man = <<>>

\* x > 0
IsPositive(x) == ~x.neg /\ ~IsZero(x)

Min(a, b) == IF a <= b THEN a ELSE b
Max(a, b) == IF a >= b THEN a ELSE b

RECURSIVE Pow10(_)
Pow10(n) == IF n = 0 THEN 1 ELSE 10 * Pow10(n - 1)

\* the limbs of a natural number (none for 0)
RECURSIVE Limbs(_)
Limbs(n) == IF n = 0 THEN <<>> ELSE Append(Limbs(n \div Base), n % Base)

\* the number of bits of a natural number
RECURSIVE BitLen(_)
BitLen(n) == IF n = 0 THEN 0 ELSE 1 + BitLen(n \div 2)

\* the limb i of a, 0 beyond its ends
At(a, i) == IF i \in 1..Len(a) THEN a[i] ELSE 0

\* a without its leading zero limbs
Strip(a) ==
    IF \A i \in 1..Len(a) : a[i] = 0 THEN <<>>
    ELSE SubSeq(a, CHOOSE i \in 1..Len(a) : a[i] # 0 /\ \A j \in 1..(i - 1) : a[j] = 0, Len(a))

\* a * 2^t for 0 <= t < LimbBits, one limb longer
ShiftLeft(a, t) ==
    [i \in 1..(Len(a) + 1) |->
        ((At(a, i - 1) % (2^(LimbBits - t))) * (2^t)) + (At(a, i) \div (2^(LimbBits - t)))]

\* the first n limbs of r / d after the point, for 0 <= r < d
RECURSIVE FractionLimbs(_, _, _)
FractionLimbs(r, d, n) ==
    IF n = 0 THEN <<>>
    ELSE <<(r * Base) \div d>> \o FractionLimbs((r * Base) % d, d, n - 1)

\* whether r / d has a digit other than 0 after these n limbs
RECURSIVE FractionRest(_, _, _)
FractionRest(r, d, n) == IF n = 0 THEN r # 0 ELSE FractionRest((r * Base) % d, d, n - 1)

\* a + b + c of two numbers of one length and a carry c, one limb longer
RECURSIVE AddLimbs(_, _, _)
AddLimbs(a, b, c) ==
    IF a = <<>> THEN <<c>>
    ELSE Append(AddLimbs(SubSeq(a, 1, Len(a) - 1), SubSeq(b, 1, Len(b) - 1),
                         (a[Len(a)] + b[Len(b)] + c) \div Base),
                (a[Len(a)] + b[Len(b)] + c) % Base)

\* a - b of two numbers of one length, for a >= b: a plus the complement of b plus 1,
\* without the carry
SubLimbs(a, b) == Tail(AddLimbs(a, [i \in 1..Len(b) |-> Base - 1 - b[i]], 1))

\* a < b for two numbers of one length
Less(a, b) == \E i \in 1..Len(a) : a[i] < b[i] /\ \A j \in 1..(i - 1) : a[j] = b[j]

\* the significand after a round up: up is ManLimbs limbs after the carry of the addition
RoundCarry(neg, up, exp) ==
    IF up[1] = 1 THEN Float(neg, <<Base \div 2>> \o Zeros(ManLimbs - 1), exp + 1)
    ELSE Float(neg, Tail(up), exp)

\* m * 2^exp to Precision bits, for m of more than ManLimbs limbs with its top bit set;
\* round to nearest, ties to even; sticky when the number is a little more than m * 2^exp
RoundAt(neg, m, exp, sticky) ==
    IF /\ (m[ManLimbs] \div (Ulp \div 2)) % 2 = 1
       /\ \/ sticky
          \/ (m[ManLimbs] \div Ulp) % 2 = 1
          \/ m[ManLimbs] % (Ulp \div 2) # 0
          \/ \E i \in (ManLimbs + 1)..Len(m) : m[i] # 0
    THEN RoundCarry(neg,
                    AddLimbs(SubSeq(m, 1, ManLimbs - 1) \o <<m[ManLimbs] - (m[ManLimbs] % Ulp)>>,
                             Zeros(ManLimbs - 1) \o <<Ulp>>, 0),
                    exp + LimbBits * (Len(m) - ManLimbs))
    ELSE Float(neg, SubSeq(m, 1, ManLimbs - 1) \o <<m[ManLimbs] - (m[ManLimbs] % Ulp)>>,
               exp + LimbBits * (Len(m) - ManLimbs))

\* a * 2^exp with a shifted by t bits to set its top bit and given pad limbs after its
\* last, then rounded
Normalised(neg, a, exp, sticky, t, pad) ==
    RoundAt(neg, Tail(ShiftLeft(a, t)) \o Zeros(pad), (exp - t) - LimbBits * pad, sticky)

\* the double nearest to (-1)^neg * a * 2^exp, for a without leading zero limbs
Rounded(neg, a, exp, sticky) ==
    IF a = <<>> THEN Zero(neg)
    ELSE Normalised(neg, a, exp, sticky, LimbBits - BitLen(a[1]),
                    Max(0, ManLimbs + 1 - Len(a)))

\* the double nearest to n / d, from the quotient's first f limbs after the point
Quotient(neg, n, d, f) ==
    Rounded(neg, Strip(Limbs(n \div d) \o FractionLimbs(n % d, d, f)), 0 - LimbBits * f,
            FractionRest(n % d, d, f))

NearestDouble(neg, n, d) == Quotient(neg, n, d, ManLimbs + 1)

\* the significand of x as a number of units of 2^exp, on n limbs
Aligned(x, exp, n) ==
    Zeros(n - (ManLimbs + 1 + ((x.exp - exp) \div LimbBits)))
        \o ShiftLeft(x.man \o Zeros((x.exp - exp) \div LimbBits), (x.exp - exp) % LimbBits)

\* x + y for the magnitudes a of x and b of y, in units of 2^exp
AddMagnitudes(x, y, a, b, exp) ==
    IF x.neg = y.neg THEN Rounded(x.neg, Strip(AddLimbs(a, b, 0)), exp, FALSE)
    ELSE IF a = b THEN Zero(FALSE)
    ELSE IF Less(a, b) THEN Rounded(y.neg, Strip(SubLimbs(b, a)), exp, FALSE)
    ELSE Rounded(x.neg, Strip(SubLimbs(a, b)), exp, FALSE)

AddAt(x, y, exp, n) == AddMagnitudes(x, y, Aligned(x, exp, n), Aligned(y, exp, n), exp)

\* x + y of two floats
FloatAdd(x, y) ==
    IF IsZero(x) /\ IsZero(y) THEN Zero(x.neg /\ y.neg)
    ELSE IF IsZero(x) THEN y
    ELSE IF IsZero(y) THEN x
    ELSE AddAt(x, y, Min(x.exp, y.exp),
               ManLimbs + 1 + ((Max(x.exp, y.exp) - Min(x.exp, y.exp)) \div LimbBits))

\* float(s) for a str: [sign] digits ['.' [digits]] or [sign] '.' digits, the double
\* nearest to the decimal; anything else raises ValueError
ParseFloat(s) ==
    LET signed == s # <<>> /\ s[1] \in {"+", "-"}
        body == IF signed THEN Tail(s) ELSE s
        dots == {i \in 1..Len(body) : body[i] = "."}
        wellFormed == /\ \A i \in 1..Len(body) : body[i] \in Digits \cup {"."}
                      /\ Cardinality(dots) <= 1
                      /\ \E i \in 1..Len(body) : body[i] \in Digits
    IN  IF ~wellFormed THEN [ok |-> FALSE, exc |-> "ValueError"]
        ELSE [ok |-> TRUE,
              v |-> NearestDouble(signed /\ s[1] = "-", DigitsVal(RemoveAll(body, ".")),
                                  Pow10(Len(body) - (IF dots = {} THEN Len(body)
                                                     ELSE CHOOSE i \in dots : TRUE)))]

\* float(x) for any value
FloatOf(x) ==
    CASE x.t = "str" -> ParseFloat(x.v)
      [] x.t = "float" -> [ok |-> TRUE, v |-> x]
      [] OTHER -> [ok |-> FALSE, exc |-> "TypeError"]

\* --------------------------------------------------------------- text

Lower == <<"a", "b", "c", "d", "e", "f", "g", "h", "i", "j", "k", "l", "m",
           "n", "o", "p", "q", "r", "s", "t", "u", "v", "w", "x", "y", "z">>
Upper == <<"A", "B", "C", "D", "E", "F", "G", "H", "I", "J", "K", "L", "M",
           "N", "O", "P", "Q", "R", "S", "T", "U", "V", "W", "X", "Y", "Z">>

UpperChar(c) ==
    IF \E i \in 1..26 : Lower[i] = c THEN Upper[CHOOSE i \in 1..26 : Lower[i] = c] ELSE c
LowerChar(c) ==
    IF \E i \in 1..26 : Upper[i] = c THEN Lower[CHOOSE i \in 1..26 : Upper[i] = c] ELSE c

\* s.upper()
ToUpper(s) == [i \in 1..Len(s) |-> UpperChar(s[i])]

\* s.capitalize()
Capitalize(s) == [i \in 1..Len(s) |-> IF i = 1 THEN UpperChar(s[i]) ELSE LowerChar(s[i])]

\* the five sensor_type strings async_setup_entry passes
Domus == <<"d", "o", "m", "u", "s">>
Powerlines == <<"p", "o", "w", "e", "r", "l", "i", "n", "e", "s">>
Partitions == <<"p", "a", "r", "t", "i", "t", "i", "o", "n", "s">>
Zones == <<"z", "o", "n", "e", "s">>
System == <<"s", "y", "s", "t", "e", "m">>

Unknown == Str(<<"u", "n", "k", "n", "o", "w", "n">>)

\* str(x) inside an f-string; the IDs of the manager's records are strs
Format(x) == IF x.t = "str" THEN x.v ELSE <<"?">>

\* sensor_data.get("NM") or sensor_data.get("LBL") or sensor_data.get("DES") or f"Sensor ..."
ResolveName(sensor_data, sensor_type, id) ==
    LET nm == Get(sensor_data, "NM", PyNone)
        lbl == Get(sensor_data, "LBL", PyNone)
        des == Get(sensor_data, "DES", PyNone)
    IN  IF Truthy(nm) THEN nm
        ELSE IF Truthy(lbl) THEN lbl
        ELSE IF Truthy(des) THEN des
        ELSE Str(<<"S", "e", "n", "s", "o", "r", " ">> \o Capitalize(sensor_type)
                 \o <<" ">> \o Format(id))

\* the unique_id property
unique_id(e) == e.sensor_type \o <<"_">> \o Format(e.id)

\* ------------------------------------------------------- numeric fields

Parsed(x) == [ok |-> TRUE, val |-> x]
Failed(exc) == [ok |-> FALSE, exc |-> exc]

\* the float a conversion yields, or the exception it raises
Converted(p) == IF p.ok THEN Parsed(p.v) ELSE Failed(p.exc)

\* float(d.get(k, "0").replace("+", "")) if d.get(k) else None
SignedField(d, k) ==
    LET x == Get(d, k, PyNone)
    IN  IF ~Truthy(x) THEN Parsed(PyNone)
        ELSE IF x.t # "str" THEN Failed("AttributeError")
        ELSE Converted(ParseFloat(RemoveAll(x.v, "+")))

\* float(d.get(k, "0")) if d.get(k) else None
PlainField(d, k) ==
    LET x == Get(d, k, PyNone)
    IN  IF ~Truthy(x) THEN Parsed(PyNone)
        ELSE Converted(FloatOf(x))

\* an acceptance test that lets a sign through
AcceptsSigned(s) ==
    IsDigit(RemoveFirst(IF s # <<>> /\ s[1] \in {"+", "-"} THEN Tail(s) ELSE s, "."))

\* x.replace('.', '', 1).isdigit(), the acceptance test of PCONS and PPROD
AcceptsDigits(s) == IsDigit(RemoveFirst(s, "."))

\* float(x) if x and x.replace('.', '', 1).isdigit() else None
DigitField(d, k) ==
    LET x == Get(d, k, PyNone)
    IN  IF ~Truthy(x) THEN Parsed(PyNone)
        ELSE IF x.t # "str" THEN Failed("AttributeError")
        ELSE IF ~AcceptsDigits(x.v) THEN Parsed(PyNone)
        ELSE Converted(ParseFloat(x.v))

\* try: ... except Exception: value = None
OrNone(r) == IF r.ok THEN r.val ELSE PyNone

\* ------------------------------------------------------------- reducers
\* Each yields [raised |-> FALSE, state, attributes], or [raised |-> TRUE, exc]
\* when an exception leaves the reducing code.

Reduced(state, attributes) == [raised |-> FALSE, state |-> state, attributes |-> attributes]
Raised(exc) == [raised |-> TRUE, exc |-> exc]

\* temp_in and temp_out of a system record (the same code in __init__ and in
\* async_update): one try block around both conversions
TempsOrNone(temp_in, temp_out) ==
    IF temp_in.ok /\ temp_out.ok
    THEN [temp_in |-> temp_in.val, temp_out |-> temp_out.val]
    ELSE [temp_in |-> PyNone, temp_out |-> PyNone]

TempField(temp_data, k) ==
    IF temp_data.t = "dict" THEN SignedField(temp_data.v, k) ELSE Failed("AttributeError")

SystemTemps(rec) ==
    TempsOrNone(TempField(Get(rec, "TEMP", Dict(EmptyMap)), "IN"),
                TempField(Get(rec, "TEMP", Dict(EmptyMap)), "OUT"))

\* for record in vals: the items the for statement visits; a str yields its characters,
\* a dict its keys (strs, of which only the type matters to the loop body), and
\* None or a float is not iterable
Items(x) ==
    CASE x.t = "list" -> [ok |-> TRUE, items |-> x.v]
      [] x.t = "str" -> [ok |-> TRUE, items |-> [i \in 1..Len(x.v) |-> Str(<<x.v[i]>>)]]
      [] x.t = "dict" -> [ok |-> TRUE, items |-> [i \in 1..Cardinality(DOMAIN x.v) |-> Str(<<>>)]]
      [] OTHER -> [ok |-> FALSE, exc |-> "TypeError"]

\* try: total_consumption += float(record.get("ENC", 0)) except Exception: (logged)
Enc(record) ==
    IF record.t = "dict" THEN FloatOf(Get(record.v, "ENC", Zero(FALSE)))
    ELSE [ok |-> FALSE, exc |-> "AttributeError"]

Added(total, enc) == IF enc.ok THEN FloatAdd(total, enc.v) ELSE total

RECURSIVE SumEnc(_)
SumEnc(vals) ==
    IF vals = <<>> THEN Zero(FALSE)
    ELSE Added(SumEnc(SubSeq(vals, 1, Len(vals) - 1)), Enc(vals[Len(vals)]))

\* stat[0]
FirstOf(stat) ==
    CASE stat.t = "list" -> [ok |-> TRUE, val |-> stat.v[1]]
      [] stat.t = "str" -> [ok |-> TRUE, val |-> Str(<<stat.v[1]>>)]
      [] stat.t = "dict" -> [ok |-> FALSE, exc |-> "KeyError"]
      [] OTHER -> [ok |-> FALSE, exc |-> "TypeError"]

\* stat[-1]
LastOf(stat) ==
    CASE stat.t = "list" -> [ok |-> TRUE, val |-> stat.v[Len(stat.v)]]
      [] stat.t = "str" -> [ok |-> TRUE, val |-> Str(<<stat.v[Len(stat.v)]>>)]
      [] stat.t = "dict" -> [ok |-> FALSE, exc |-> "KeyError"]
      [] OTHER -> [ok |-> FALSE, exc |-> "TypeError"]

\* total_consumption of a partitions record (the same code in __init__ and in
\* async_update); none of stat[-1], latest_stat.get and the for statement is inside the try
SumOver(vals) == IF ~vals.ok THEN vals ELSE [ok |-> TRUE, v |-> SumEnc(vals.items)]

SumOfLatest(latest_stat) ==
    IF ~latest_stat.ok THEN latest_stat
    ELSE IF latest_stat.val.t # "dict" THEN [ok |-> FALSE, exc |-> "AttributeError"]
    ELSE SumOver(Items(Get(latest_stat.val.v, "VAL", List(<<>>))))

SumOfStat(stat) ==
    IF ~Truthy(stat) THEN [ok |-> TRUE, v |-> Zero(FALSE)] ELSE SumOfLatest(LastOf(stat))

TotalConsumption(rec) == SumOfStat(Get(rec, "STAT", List(<<>>)))


\* __init__, the branches on sensor_type

InitSystem(sensor_data) ==
    Reduced(Get(sensor_data, "ARM", Unknown), SystemTemps(sensor_data))

InitPowerlinesAssign(sensor_data, pcons_val, pprod_val) ==
    Reduced(IF pcons_val # PyNone THEN pcons_val ELSE Get(sensor_data, "STATUS", Unknown),
            [Consumo |-> pcons_val, Produzione |-> pprod_val,
             Status |-> Get(sensor_data, "STATUS", Unknown)])

InitPowerlines(sensor_data) ==
    InitPowerlinesAssign(sensor_data, OrNone(DigitField(sensor_data, "PCONS")),
                          OrNone(DigitField(sensor_data, "PPROD")))

InitDomusAssign(sensor_data, temperature, humidity) ==
    Reduced(IF temperature # PyNone THEN temperature ELSE Get(sensor_data, "STA", Unknown),
            Overlay(sensor_data, [temperature |-> temperature, humidity |-> humidity]))

InitDomus(sensor_data) ==
    InitDomusAssign(sensor_data, OrNone(SignedField(sensor_data, "T")), OrNone(PlainField(sensor_data, "H")))

InitPartitionsAssign(sensor_data, total) ==
    IF ~total.ok THEN Raised(total.exc)
    ELSE Reduced(IF IsPositive(total.v) THEN total.v ELSE Get(sensor_data, "STA", Unknown),
                 Overlay(sensor_data, [total_consumption |-> total.v]))

InitPartitions(sensor_data) == InitPartitionsAssign(sensor_data, TotalConsumption(sensor_data))

InitOther(sensor_data) ==
    Reduced(Get(sensor_data, "STA", Unknown), sensor_data)

InitReduce(sensor_type, sensor_data) ==
    CASE sensor_type = System -> InitSystem(sensor_data)
      [] sensor_type = Powerlines -> InitPowerlines(sensor_data)
      [] sensor_type = Domus -> InitDomus(sensor_data)
      [] sensor_type = Partitions -> InitPartitions(sensor_data)
      [] OTHER -> InitOther(sensor_data)

\* KseniaSensorEntity(ws_manager, sensor_data, sensor_type)
Constructed(sensor_data, sensor_type, r) ==
    IF r.raised THEN r
    ELSE [raised |-> FALSE,
          entity |-> [id |-> sensor_data["ID"],
                      sensor_type |-> sensor_type,
                      name |-> ResolveName(sensor_data, sensor_type, sensor_data["ID"]),
                      state |-> r.state,
                      attributes |-> r.attributes]]

KseniaSensorEntity(sensor_data, sensor_type) ==
    IF "ID" \notin DOMAIN sensor_data THEN Raised("KeyError")
    ELSE Constructed(sensor_data, sensor_type, InitReduce(sensor_type, sensor_data))

\* async_update, the body run on the matching record, per branch

UpdateSystem(sys) ==
    Reduced(Get(sys, "ARM", Unknown), SystemTemps(sys))

UpdatePowerlinesAssign(sensor, pcons_val, pprod_val) ==
    Reduced(IF pcons_val # PyNone THEN pcons_val ELSE Get(sensor, "STATUS", Unknown),
            [Consumo |-> pcons_val, Produzione |-> pprod_val,
             Status |-> Get(sensor, "STATUS", Unknown)])

UpdatePowerlines(sensor) ==
    UpdatePowerlinesAssign(sensor, OrNone(DigitField(sensor, "PCONS")),
                          OrNone(DigitField(sensor, "PPROD")))

UpdateDomusAssign(sensor, temperature, humidity) ==
    Reduced(IF temperature # PyNone THEN temperature ELSE Get(sensor, "STA", Unknown),
            Overlay(sensor, [temperature |-> temperature, humidity |-> humidity]))

UpdateDomus(sensor) ==
    UpdateDomusAssign(sensor, OrNone(SignedField(sensor, "T")), OrNone(PlainField(sensor, "H")))

UpdatePartitionsAssign(sensor, total) ==
    IF ~total.ok THEN Raised(total.exc)
    ELSE Reduced(IF IsPositive(total.v) THEN total.v ELSE Get(sensor, "STA", Unknown),
                 Overlay(sensor, [total_consumption |-> total.v]))

UpdatePartitions(sensor) == UpdatePartitionsAssign(sensor, TotalConsumption(sensor))

UpdateOther(sensor) ==
    Reduced(Get(sensor, "STA", Unknown), sensor)

UpdateReduce(sensor_type, sensor) ==
    CASE sensor_type = System -> UpdateSystem(sensor)
      [] sensor_type = Powerlines -> UpdatePowerlines(sensor)
      [] sensor_type = Domus -> UpdateDomus(sensor)
      [] sensor_type = Partitions -> UpdatePartitions(sensor)
      [] OTHER -> UpdateOther(sensor)

\* ------------------------------------------------------ the manager's calls

CallDom == [fn |-> "getDom", arg |-> <<>>]
CallSystem == [fn |-> "getSystem", arg |-> <<>>]
CallSensor(name) == [fn |-> "getSensor", arg |-> name]

POWER_LINES == <<"P", "O", "W", "E", "R", "_", "L", "I", "N", "E", "S">>
PARTITIONS == <<"P", "A", "R", "T", "I", "T", "I", "O", "N", "S">>
ZONES == <<"Z", "O", "N", "E", "S">>

\* the fetches of zones and partitions in the other order
SetupStepSwapped(pc) ==
    CASE pc = "domus" -> [call |-> CallDom, sensor_type |-> Domus, next |-> "powerlines"]
      [] pc = "powerlines" ->
            [call |-> CallSensor(POWER_LINES), sensor_type |-> Powerlines, next |-> "zones"]
      [] pc = "zones" -> [call |-> CallSensor(ZONES), sensor_type |-> Zones, next |-> "partitions"]
      [] pc = "partitions" ->
            [call |-> CallSensor(PARTITIONS), sensor_type |-> Partitions, next |-> "systems"]
      [] OTHER -> [call |-> CallSystem, sensor_type |-> System, next |-> "add"]

\* async_setup_entry: at each await, the call made, the sensor_type given to the
\* entities built from its result, and where the function goes next
SetupStep(pc) ==
    CASE pc = "domus" -> [call |-> CallDom, sensor_type |-> Domus, next |-> "powerlines"]
      [] pc = "powerlines" ->
            [call |-> CallSensor(POWER_LINES), sensor_type |-> Powerlines, next |-> "partitions"]
      [] pc = "partitions" ->
            [call |-> CallSensor(PARTITIONS), sensor_type |-> Partitions, next |-> "zones"]
      [] pc = "zones" -> [call |-> CallSensor(ZONES), sensor_type |-> Zones, next |-> "systems"]
      [] OTHER -> [call |-> CallSystem, sensor_type |-> System, next |-> "add"]

SetupAwaits == {"domus", "powerlines", "partitions", "zones", "systems"}

\* async_update: the call each branch awaits
UpdateCall(sensor_type) ==
    CASE sensor_type = System -> CallSystem
      [] sensor_type = Powerlines -> CallSensor(POWER_LINES)
      [] sensor_type = Domus -> CallDom
      [] sensor_type = Partitions -> CallSensor(PARTITIONS)
      [] OTHER -> CallSensor(ToUpper(sensor_type))

\* for x in snapshot: if x["ID"] == self._id: ... break
Matches(snapshot, id) == {i \in 1..Len(snapshot) : snapshot[i]["ID"] = id}
FirstMatch(snapshot, id) ==
    snapshot[CHOOSE i \in Matches(snapshot, id) : \A j \in Matches(snapshot, id) : i <= j]

\* ------------------------------------------------- what the manager returns

Id1 == Str(<<"1">>)
Id2 == Str(<<"2">>)
Ok == Str(<<"o", "k">>)
On == Str(<<"o", "n">>)
Alarm == Str(<<"a", "l", "a", "r", "m">>)
Armed == Str(<<"A", "R", "M", "E", "D">>)
Text == Str(<<"a", "b", "c">>)
Empty == Str(<<>>)

\* the maps with at most the key k, its value among vals
Opt(k, vals) == {EmptyMap} \cup {(k :> v) : v \in vals}

\* sequences over S of length at most n
SeqsUpTo(S, n) == UNION {[1..k -> S] : k \in 0..n}

\* a record of each call, with ID "1"
Reading(call) ==
    CASE call = CallDom ->
            [ID |-> Id1, NM |-> Str(<<"h", "a", "l", "l">>), T |-> Str(<<"+", "1", "9", ".", "2">>),
             H |-> Str(<<"4", "5">>), STA |-> Ok]
      [] call = CallSensor(POWER_LINES) ->
            [ID |-> Id1, PCONS |-> Str(<<"1", "2", ".", "5">>), PPROD |-> Str(<<"3">>),
             STATUS |-> On]
      [] call = CallSensor(PARTITIONS) ->
            [ID |-> Id1, STA |-> Ok,
             STAT |-> List(<<Dict("VAL" :> List(<<Dict("ENC" :> Str(<<"1", ".", "5">>)),
                                                 Dict("ENC" :> Str(<<"2", ".", "5">>))>>))>>)]
      [] call = CallSensor(ZONES) -> [ID |-> Id1, STA |-> Ok]
      [] OTHER ->
            [ID |-> Id1, ARM |-> Armed,
             TEMP |-> Dict([IN |-> Str(<<"+", "2", "1", ".", "0">>),
                            OUT |-> Str(<<"5", ".", "5">>)])]

\* a later record of the same sensor: every field differs, the name fields too
LaterReading(call) ==
    CASE call = CallDom ->
            [ID |-> Id1, LBL |-> Str(<<"a", "t", "t", "i", "c">>), T |-> Text,
             H |-> Str(<<"5", "0">>), STA |-> Alarm]
      [] call = CallSensor(POWER_LINES) ->
            [ID |-> Id1, DES |-> Str(<<"m", "a", "i", "n">>), PCONS |-> Str(<<"-", "5">>),
             STATUS |-> Ok]
      [] call = CallSensor(PARTITIONS) ->
            [ID |-> Id1, NM |-> Str(<<"n", "i", "g", "h", "t">>), STA |-> Alarm,
             STAT |-> List(<<>>)]
      [] call = CallSensor(ZONES) ->
            [ID |-> Id1, NM |-> Str(<<"d", "o", "o", "r">>), STA |-> Alarm, BYP |-> On]
      [] OTHER ->
            [ID |-> Id1, NM |-> Str(<<"l", "a", "r", "e", "s">>), ARM |-> On,
             TEMP |-> Dict([IN |-> Text, OUT |-> Str(<<"7">>)])]

\* a record of another sensor of the same call, with ID "2"
Neighbour(call) ==
    CASE call = CallDom -> [ID |-> Id2, T |-> Str(<<"5", ".", "5">>)]
      [] call = CallSensor(POWER_LINES) -> [ID |-> Id2, PCONS |-> Str(<<"3">>)]
      [] call = CallSensor(PARTITIONS) -> [ID |-> Id2, STA |-> Ok]
      [] call = CallSensor(ZONES) -> [ID |-> Id2]
      [] OTHER -> [ID |-> Id2]

Calls == {CallDom, CallSensor(POWER_LINES), CallSensor(PARTITIONS), CallSensor(ZONES), CallSystem}

\* the records the manager holds for a call (none for a call it does not know)
Records(call) ==
    IF call \in Calls THEN {Reading(call), LaterReading(call), Neighbour(call)} ELSE {}

\* the sensors of a call as the manager lists them at setup
Listed(call) == <<Reading(call), Neighbour(call)>>

\* a snapshot lists a record once
NoRepeat(snap) == \A i, j \in 1..Len(snap) : snap[i] = snap[j] => i = j

\* ---- the records of one sensor, field by field: each field absent, empty, text or well formed

WithId1(fields) == {("ID" :> Id1) @@ f : f \in fields}

\* the maps made of one map of each of three sets of maps with disjoint keys
Combine(A, B, C) == {a @@ b @@ c : a \in A, b \in B, c \in C}

TempDicts ==
    {Dict(a @@ b) :
        a \in Opt("IN", {Empty, Text, Str(<<"+", "2", "1", ".", "0">>)}),
        b \in Opt("OUT", {Empty, Text, Str(<<"5", ".", "5">>)})}

SystemRecords ==
    WithId1(Combine(Opt("TEMP", TempDicts \cup {Empty, Text}), Opt("ARM", {Armed}), {EmptyMap}))

PowerlinesRecords ==
    WithId1(Combine(Opt("PCONS", {Empty, Text, Str(<<"1", "2", ".", "5">>), Str(<<"-", "5">>),
                                  Str(<<"+", "5">>), Str(<<"1", ".", "2", ".", "3">>),
                                  Str(<<".">>), Str(<<"0">>), Str(<<"5", ".">>),
                                  Str(<<"1", "a">>)}),
                    Opt("PPROD", {Empty, Str(<<"3">>), Str(<<"-", "3">>)}),
                    Opt("STATUS", {On})))

DomusRecords ==
    WithId1(Combine(Opt("T", {Empty, Text, Str(<<"+", "1", "9", ".", "2">>)}),
                    Opt("H", {Empty, Text, Str(<<"4", "5">>)}),
                    Opt("STA", {Ok})))

Enc15 == Dict("ENC" :> Str(<<"1", ".", "5">>))
Enc25 == Dict("ENC" :> Str(<<"2", ".", "5">>))
EncText == Dict("ENC" :> Text)
EncEmpty == Dict("ENC" :> Empty)
EncNegative == Dict("ENC" :> Str(<<"-", "5">>))
EncAbsent == Dict(EmptyMap)
EncTenth == Dict("ENC" :> Str(<<"0", ".", "1">>))
EncFifth == Dict("ENC" :> Str(<<"0", ".", "2">>))
EncLessThreeTenths == Dict("ENC" :> Str(<<"-", "0", ".", "3">>))

\* the elements of STAT: VAL absent, empty, text, or a list of entries
StatElements ==
    {Dict(f) : f \in Opt("VAL", {Empty, Text, List(<<>>), List(<<Enc15>>),
                                 List(<<Enc15, Enc25>>), List(<<Enc15, EncText>>),
                                 List(<<EncEmpty, Enc25>>), List(<<EncAbsent>>),
                                 List(<<EncNegative>>), List(<<Enc25, EncNegative>>),
                                 List(<<EncTenth, EncFifth>>),
                                 List(<<EncTenth, EncFifth, EncLessThreeTenths>>)})}

EarlierStat == Dict("VAL" :> List(<<Enc25, Enc25>>))

PartitionsRecords ==
    WithId1(Combine(Opt("STAT", {Empty, Text, List(<<>>), List(<<Text>>)}
                                \cup {List(<<d>>) : d \in StatElements}
                                \cup {List(<<EarlierStat, d>>) : d \in StatElements}),
                    Opt("STA", {Ok}), {EmptyMap}))

ZonesRecords ==
    WithId1(Combine(Opt("STA", {Empty, Ok, Alarm}), Opt("BYP", {On}), {EmptyMap}))

\* every shape of record a call may return for the sensor with ID "1"
SensorRecords(call) ==
    CASE call = CallDom -> DomusRecords
      [] call = CallSensor(POWER_LINES) -> PowerlinesRecords
      [] call = CallSensor(PARTITIONS) -> PartitionsRecords
      [] call = CallSensor(ZONES) -> ZonesRecords
      [] call = CallSystem -> SystemRecords
      [] OTHER -> {}

\* setup of a catalog of one sensor: one call returns its record, the others nothing
SensorSetupReplies(call) ==
    IF entities = <<>> THEN {<<>>} \cup {<<r>> : r \in SensorRecords(call)} ELSE {<<>>}

\* refresh of that sensor: no record, its record, or its record after a neighbour's
SensorRefreshReplies(call) ==
    IF call \in Calls
    THEN {<<>>, <<Neighbour(call)>>} \cup {<<r>> : r \in SensorRecords(call)}
            \cup {<<Neighbour(call), r>> : r \in SensorRecords(call)}
    ELSE {}

\* IDs are unique within a category in the snapshots setup receives
UniqueIds(snap) == \A i, j \in 1..Len(snap) : snap[i]["ID"] = snap[j]["ID"] => i = j

\* the snapshots a setup fetch may return: the first sensors of the call, at most
\* MaxSnapLen of them; the catalog is kept to MaxEntities entities
SetupReplies(call) ==
    {snap \in {SubSeq(Listed(call), 1, k) : k \in 0..Len(Listed(call))} :
        /\ Len(snap) <= MaxSnapLen
        /\ UniqueIds(snap)
        /\ Len(entities) + Len(snap) <= MaxEntities}

\* the snapshots a refresh fetch may return
RefreshReplies(call) == {snap \in SeqsUpTo(Records(call), MaxSnapLen) : NoRepeat(snap)}

\* ------------------------------------------------------- async_setup_entry

\* for sensor in snapshot: entities.append(KseniaSensorEntity(ws_manager, sensor, sensor_type))
\* An exception of a constructor leaves the loop and the function.
\* A fetch returns: the snapshot is kept in the local and its entities are appended.
NoLocals == [v \in SetupAwaits |-> PyNone]

\* the constructions of the for loop that complete: all, or those before the first that raises
Completed(built) ==
    IF \A i \in 1..Len(built) : ~built[i].raised THEN Len(built)
    ELSE (CHOOSE i \in 1..Len(built) :
             built[i].raised /\ \A j \in 1..(i - 1) : ~built[j].raised) - 1

AppendBuilt(snap, step, built, n) ==
    /\ fetchLog' = Append(fetchLog, step.call)
    /\ fetched' = IF n = Len(snap) THEN [fetched EXCEPT ![setupPc] = List(snap)] ELSE NoLocals
    /\ entities' = entities \o [i \in 1..n |-> built[i].entity]
    /\ upc' = upc \o [i \in 1..n |-> "idle"]
    /\ outcome' = outcome \o [i \in 1..n |-> "none"]
    /\ origin' = origin \o [i \in 1..n |->
                     [sensor_type |-> step.sensor_type, id |-> snap[i]["ID"],
                      name |-> built[i].entity.name]]
    /\ lastSeen' = lastSeen \o [i \in 1..n |-> snap[i]]
    /\ source' = source \o [i \in 1..n |-> snap[i]]
    /\ setupPc' = IF n = Len(snap) THEN step.next ELSE "raised"
    /\ setupExc' = IF n = Len(snap) THEN setupExc ELSE built[n + 1].exc

BuildAll(snap, step, built) == AppendBuilt(snap, step, built, Completed(built))

SetupFetchReturn(snap) ==
    /\ setupPc \in SetupAwaits
    /\ BuildAll(snap, SetupStep(setupPc),
                [i \in 1..Len(snap) |-> KseniaSensorEntity(snap[i], SetupStep(setupPc).sensor_type)])
    /\ UNCHANGED addCalls

\* A fetch raises: nothing catches it, async_setup_entry ends with the exception.
SetupFetchFail ==
    /\ setupPc \in SetupAwaits
    /\ fetchLog' = Append(fetchLog, SetupStep(setupPc).call)
    /\ setupPc' = "raised"
    /\ setupExc' = "FetchError"
    /\ fetched' = NoLocals
    /\ UNCHANGED <<entities, addCalls, upc, outcome, origin, lastSeen, source>>

\* async_add_entities(entities, update_before_add=True)
AddEntities ==
    /\ setupPc = "add"
    /\ addCalls' = Append(addCalls, [entities |-> [i \in 1..Len(entities) |-> i],
                                     update_before_add |-> TRUE])
    /\ setupPc' = "done"
    /\ fetched' = NoLocals
    /\ UNCHANGED <<setupExc, fetchLog, entities, upc, outcome, origin, lastSeen, source>>

\* the entities the host holds and refreshes
Registered ==
    {e \in 1..Len(entities) :
        \E c \in 1..Len(addCalls) : \E i \in 1..Len(addCalls[c].entities) :
            addCalls[c].entities[i] = e}

\* ------------------------------------------------------------ async_update

\* the host calls async_update; it runs to its await
RefreshStart(e) ==
    /\ e \in Registered
    /\ upc[e] = "idle"
    /\ upc' = [upc EXCEPT ![e] = "await"]
    /\ UNCHANGED <<setupPc, setupExc, fetched, fetchLog, entities, addCalls, outcome,
                   origin, lastSeen, source>>

\* a refresh that also took the name from the matching record
AssignedWithName(entity, rec, r) ==
    [entity EXCEPT !.state = r.state, !.attributes = r.attributes,
                   !.name = ResolveName(rec, entity.sensor_type, entity.id)]

\* the entity after the assignments of a branch of async_update on the record rec
Assigned(entity, rec, r) == [entity EXCEPT !.state = r.state, !.attributes = r.attributes]

\* state and attributes kept on the class: an assignment reaches every entity of the type
ApplyMatchShared(e, rec, r) ==
    /\ lastSeen' = [lastSeen EXCEPT ![e] = rec]
    /\ outcome' = [outcome EXCEPT ![e] = IF r.raised THEN r.exc ELSE "updated"]
    /\ entities' = [i \in 1..Len(entities) |->
                        IF ~r.raised /\ entities[i].sensor_type = entities[e].sensor_type
                        THEN Assigned(entities[i], rec, r) ELSE entities[i]]
    /\ source' = IF r.raised THEN source ELSE [source EXCEPT ![e] = rec]

\* a refresh that marks the entity unknown when its record is missing
ForgetOnMiss(e) ==
    /\ outcome' = [outcome EXCEPT ![e] = "no_match"]
    /\ entities' = [entities EXCEPT ![e].state = Unknown]
    /\ UNCHANGED <<lastSeen, source>>

\* the for loop ends without a match: nothing is assigned
KeepOnMiss(e) ==
    /\ outcome' = [outcome EXCEPT ![e] = "no_match"]
    /\ UNCHANGED <<entities, lastSeen, source>>

\* the fetch returns; the scan and the assignments run without another await
ApplyMatch(e, rec, r) ==
    /\ lastSeen' = [lastSeen EXCEPT ![e] = rec]
    /\ IF r.raised
       THEN /\ outcome' = [outcome EXCEPT ![e] = r.exc]
            /\ UNCHANGED <<entities, source>>
       ELSE /\ outcome' = [outcome EXCEPT ![e] = "updated"]
            /\ entities' = [entities EXCEPT ![e] = Assigned(entities[e], rec, r)]
            /\ source' = [source EXCEPT ![e] = rec]

RefreshReturn(e, snap) ==
    /\ e \in Registered
    /\ upc[e] = "await"
    /\ upc' = [upc EXCEPT ![e] = "idle"]
    /\ IF Matches(snap, entities[e].id) = {}
       THEN KeepOnMiss(e)
       ELSE ApplyMatch(e, FirstMatch(snap, entities[e].id),
                       UpdateReduce(entities[e].sensor_type, FirstMatch(snap, entities[e].id)))
    /\ UNCHANGED <<setupPc, setupExc, fetched, fetchLog, addCalls, origin>>

\* the fetch raises; the exception leaves async_update
RefreshFail(e) ==
    /\ e \in Registered
    /\ upc[e] = "await"
    /\ upc' = [upc EXCEPT ![e] = "idle"]
    /\ outcome' = [outcome EXCEPT ![e] = "FetchError"]
    /\ UNCHANGED <<setupPc, setupExc, fetched, fetchLog, entities, addCalls,
                   origin, lastSeen, source>>

\* ---------------------------------------------------------- specification

Init ==
    /\ setupPc = "domus"
    /\ setupExc = "none"
    /\ fetched = NoLocals
    /\ fetchLog = <<>>
    /\ entities = <<>>
    /\ addCalls = <<>>
    /\ upc = <<>>
    /\ outcome = <<>>
    /\ origin = <<>>
    /\ lastSeen = <<>>
    /\ source = <<>>

SetupReturns == \E snap \in SetupReplies(SetupStep(setupPc).call) : SetupFetchReturn(snap)

RefreshStarts == \E e \in 1..Len(entities) : RefreshStart(e)

RefreshReturns ==
    \E e \in 1..Len(entities) :
        \E snap \in RefreshReplies(UpdateCall(entities[e].sensor_type)) : RefreshReturn(e, snap)

RefreshFails == \E e \in 1..Len(entities) : RefreshFail(e)

Next ==
    \/ SetupReturns
    \/ SetupFetchFail
    \/ AddEntities
    \/ RefreshStarts
    \/ RefreshReturns
    \/ RefreshFails

Spec == Init /\ [][Next]_vars

\* One sensor, its record drawn from every shape the protocol allows

SensorSetupReturns ==
    \E snap \in SensorSetupReplies(SetupStep(setupPc).call) : SetupFetchReturn(snap)

SensorRefreshReturns ==
    \E e \in 1..Len(entities) :
        \E snap \in SensorRefreshReplies(UpdateCall(entities[e].sensor_type)) :
            RefreshReturn(e, snap)

SensorNext ==
    \/ SensorSetupReturns
    \/ AddEntities
    \/ RefreshStarts
    \/ SensorRefreshReturns
    \/ RefreshFails

SensorSpec == Init /\ [][SensorNext]_vars


\* ------------------------------------------------------------------ claims

Exceptions == {"FetchError", "AttributeError", "TypeError", "KeyError", "ValueError"}
Entities == 1..Len(entities)
CallOf(e) == UpdateCall(entities[e].sensor_type)

\* C1: a refresh whose snapshot holds no record with the entity's ID (the empty
\* snapshot included) returns without raising and leaves the entity's state and
\* attributes as they were when async_update was called, whatever refreshes came before.
C1_MissKeepsState ==
    [][\A e \in Entities :
          /\ RefreshStart(e) => entities'[e] = entities[e]
          /\ (upc[e] = "await" /\ upc'[e] = "idle") =>
                \A snap \in RefreshReplies(CallOf(e)) :
                    (Matches(snap, entities[e].id) = {} /\ RefreshReturn(e, snap)) =>
                        /\ entities'[e].state = entities[e].state
                        /\ entities'[e].attributes = entities[e].attributes
                        /\ outcome'[e] \notin Exceptions]_vars

\* an entity refreshed to a later record, then refreshed with a snapshot without its ID
C1_Witness ==
    \E e \in Entities :
        /\ upc[e] = "idle" /\ outcome[e] = "no_match"
        /\ source[e] = LaterReading(CallOf(e))
        /\ entities[e].state # InitReduce(entities[e].sensor_type, Reading(CallOf(e))).state

\* C2: a fetch that fails during setup does not end async_setup_entry: the category
\* contributes no entity and the other categories are still fetched and registered.
C2_FetchFailureIsIsolated == ~(setupPc = "raised" /\ setupExc = "FetchError")

\* C3: for a record with an ID whose other fields are absent, empty or text (TEMP, STAT
\* and VAL included), neither the constructor nor the refresh raises.
C3_ReducerNeverRaises ==
    /\ setupPc # "raised"
    /\ \A e \in Entities : outcome[e] \notin Exceptions \ {"FetchError"}

\* the number the claim gives PCONS and PPROD: the decimal value of a non-empty string of
\* digits with at most one '.', and null for anything else
C4Number(rec, k) ==
    IF /\ k \in DOMAIN rec
       /\ rec[k].t = "str"
       /\ \A i \in 1..Len(rec[k].v) : rec[k].v[i] \in Digits \cup {"."}
       /\ Cardinality({i \in 1..Len(rec[k].v) : rec[k].v[i] = "."}) <= 1
       /\ \E i \in 1..Len(rec[k].v) : rec[k].v[i] \in Digits
    THEN ParseFloat(rec[k].v).v
    ELSE PyNone

\* C4: a powerlines entity has exactly the attributes Consumo, Produzione and Status, a
\* number only for a non-empty string of digits with at most one '.', and its state is
\* the PCONS number when there is one, else STATUS, else "unknown".
C4_Powerlines ==
    \A e \in Entities :
        entities[e].sensor_type = Powerlines =>
            /\ entities[e].attributes =
                   [Consumo |-> C4Number(source[e], "PCONS"),
                    Produzione |-> C4Number(source[e], "PPROD"),
                    Status |-> Get(source[e], "STATUS", Unknown)]
            /\ entities[e].state =
                   IF C4Number(source[e], "PCONS") # PyNone
                   THEN C4Number(source[e], "PCONS")
                   ELSE Get(source[e], "STATUS", Unknown)

\* a powerlines entity refreshed from a record with PCONS "-5": null, and the state is STATUS
C4_Witness ==
    \E e \in Entities :
        /\ entities[e].sensor_type = Powerlines
        /\ outcome[e] = "updated"
        /\ Get(source[e], "PCONS", PyNone) = Str(<<"-", "5">>)
        /\ entities[e].attributes.Consumo = PyNone
        /\ entities[e].state = On

\* whether an entry of VAL has an ENC value that is a number
C5HasEnc(entry) ==
    /\ entry.t = "dict"
    /\ "ENC" \in DOMAIN entry.v
    /\ entry.v["ENC"].t = "str"
    /\ ParseFloat(entry.v["ENC"].v).ok

\* the sum the claim gives: the ENC values of the first n entries of VAL, added as
\* floats in the order of the entries
RECURSIVE C5EncSum(_, _)
C5EncSum(vals, n) ==
    IF n = 0 THEN Zero(FALSE)
    ELSE IF C5HasEnc(vals[n])
    THEN FloatAdd(C5EncSum(vals, n - 1), ParseFloat(vals[n].v["ENC"].v).v)
    ELSE C5EncSum(vals, n - 1)

\* ... of the last element of STAT, and 0 when STAT or VAL is missing or empty
C5Total(rec) ==
    IF "STAT" \notin DOMAIN rec \/ rec["STAT"].t # "list" \/ rec["STAT"].v = <<>>
    THEN Zero(FALSE)
    ELSE LET last == rec["STAT"].v[Len(rec["STAT"].v)]
         IN  IF "VAL" \notin DOMAIN last.v \/ last.v["VAL"].t # "list" THEN Zero(FALSE)
             ELSE C5EncSum(last.v["VAL"].v, Len(last.v["VAL"].v))

\* C5: a partitions entity always has the number total_consumption, the sum of ENC over
\* the VAL of the last element of STAT only (0 without STAT or VAL), a float sum taken
\* in the order of the entries; its state is the sum when it is above 0, else STA, else
\* "unknown".
C5_Partitions ==
    \A e \in Entities :
        entities[e].sensor_type = Partitions =>
            /\ "total_consumption" \in DOMAIN entities[e].attributes
            /\ entities[e].attributes["total_consumption"].t = "float"
            /\ entities[e].attributes["total_consumption"] = C5Total(source[e])
            /\ entities[e].state =
                   IF ~C5Total(source[e]).neg /\ C5Total(source[e]).man # <<>>
                   THEN C5Total(source[e])
                   ELSE Get(source[e], "STA", Unknown)

\* a partitions entity refreshed from STAT = [{VAL: [2.5, 2.5]}, {VAL: [1.5, 2.5]}]: its
\* state is 4.0, that is 2^59 * 2^-57
C5_Witness ==
    \E e \in Entities :
        /\ entities[e].sensor_type = Partitions
        /\ outcome[e] = "updated"
        /\ Get(source[e], "STAT", PyNone) =
               List(<<EarlierStat, Dict("VAL" :> List(<<Enc15, Enc25>>))>>)
        /\ entities[e].state = Float(FALSE, <<Base \div 2, 0, 0, 0>>, 0 - 57)

\* C6: refreshes interleave at their awaits, and a step of one entity's refresh (started,
\* updated, no match, fetch failed) changes no other entity; a failed fetch reaches the
\* caller and leaves the entity's own state and attributes unchanged.
C6_RefreshIsolation ==
    [][\A e \in Entities :
          /\ upc'[e] # upc[e] =>
                \A d \in Entities \ {e} :
                    /\ entities'[d].state = entities[d].state
                    /\ entities'[d].attributes = entities[d].attributes
          /\ RefreshFail(e) =>
                /\ outcome'[e] = "FetchError"
                /\ entities'[e].state = entities[e].state
                /\ entities'[e].attributes = entities[e].attributes]_vars

\* an entity whose last fetch failed after an earlier update awaits its next fetch, while
\* another entity of the same type has been updated
C6_Witness ==
    \E e, d \in Entities :
        /\ e # d
        /\ entities[e].sensor_type = entities[d].sensor_type
        /\ upc[e] = "await" /\ outcome[e] = "FetchError"
        /\ upc[d] = "idle" /\ outcome[d] = "updated"
        /\ source[e] = LaterReading(CallOf(e))

SetupOrder ==
    <<CallDom, CallSensor(POWER_LINES), CallSensor(PARTITIONS), CallSensor(ZONES), CallSystem>>

\* the records of the five snapshots in fetch order, and the type each is given
FetchedRecords ==
    fetched["domus"].v \o fetched["powerlines"].v \o fetched["partitions"].v
        \o fetched["zones"].v \o fetched["systems"].v
FetchedTypes ==
    [i \in 1..Len(fetched["domus"].v) |-> Domus]
        \o [i \in 1..Len(fetched["powerlines"].v) |-> Powerlines]
        \o [i \in 1..Len(fetched["partitions"].v) |-> Partitions]
        \o [i \in 1..Len(fetched["zones"].v) |-> Zones]
        \o [i \in 1..Len(fetched["systems"].v) |-> System]

\* C7: setup fetches domus, powerlines, partitions, zones, system in that order, builds
\* one entity per record with the snapshot's type, and hands the entities to the host
\* once, in one call, after the five fetches; the catalog never changes afterwards.
C7_SetupOnce ==
    /\ fetchLog = SubSeq(SetupOrder, 1, Len(fetchLog))
    /\ setupPc = "add" =>
          /\ Len(entities) = Len(FetchedRecords)
          /\ \A i \in Entities :
                /\ entities[i].id = FetchedRecords[i]["ID"]
                /\ entities[i].sensor_type = FetchedTypes[i]
                /\ InitReduce(FetchedTypes[i], FetchedRecords[i]) =
                       Reduced(entities[i].state, entities[i].attributes)
    /\ Len(addCalls) = (IF setupPc = "done" THEN 1 ELSE 0)
    /\ \A c \in 1..Len(addCalls) :
          /\ fetchLog = SetupOrder
          /\ addCalls[c].entities = [i \in Entities |-> i]
          /\ \A i \in Entities :
                origin[i].id = entities[i].id /\ origin[i].sensor_type = entities[i].sensor_type

\* a registered catalog with two entities of one snapshot, after refreshes whose
\* snapshots lacked one of them and listed a record first that setup listed second
C7_Witness ==
    /\ setupPc = "done"
    /\ Len(entities) = 2
    /\ entities[1].sensor_type = Partitions /\ entities[2].sensor_type = Partitions
    /\ outcome[1] = "no_match"
    /\ outcome[2] = "updated"

\* C8: after any refreshes, unique_id is type + "_" + ID of the record the entity was
\* built from, and the entity's ID, type and name are those the constructor set.
C8_IdentityFixed ==
    \A e \in Entities :
        /\ unique_id(entities[e]) = origin[e].sensor_type \o <<"_">> \o origin[e].id.v
        /\ entities[e].id = origin[e].id
        /\ entities[e].sensor_type = origin[e].sensor_type
        /\ entities[e].name = origin[e].name

\* an entity updated from a record whose name fields differ from those it was built from
C8_Witness ==
    \E e \in Entities :
        /\ outcome[e] = "updated"
        /\ source[e] = LaterReading(CallOf(e))
        /\ ResolveName(source[e], entities[e].sensor_type, entities[e].id) # entities[e].name

\* C9: at every point between awaits, state and attributes are those a fresh entity of
\* the type built from lastSeen would have: the first record with the entity's ID in the
\* last snapshot that held one, or the construction record.
C9_PairFromLastSeen ==
    \A e \in Entities :
        /\ ~InitReduce(entities[e].sensor_type, lastSeen[e]).raised
        /\ InitReduce(entities[e].sensor_type, lastSeen[e]) =
               Reduced(entities[e].state, entities[e].attributes)

\* whether the text of a numeric field converts, after the removal of '+' if stripped
Converts(d, k, stripped) ==
    /\ k \in DOMAIN d
    /\ d[k].t = "str"
    /\ d[k].v # <<>>
    /\ ParseFloat(IF stripped THEN RemoveAll(d[k].v, "+") ELSE d[k].v).ok
ConvertedValue(d, k, stripped) ==
    ParseFloat(IF stripped THEN RemoveAll(d[k].v, "+") ELSE d[k].v).v

\* C10: a numeric field that is present, non-empty and converts is in the attributes as
\* its value, whether or not another numeric field of the record fails to convert.
C10_ParseFailureIsLocal ==
    \A e \in Entities :
        /\ (entities[e].sensor_type = System /\ "TEMP" \in DOMAIN source[e]
                /\ source[e]["TEMP"].t = "dict") =>
              /\ Converts(source[e]["TEMP"].v, "IN", TRUE) =>
                    entities[e].attributes["temp_in"] =
                        ConvertedValue(source[e]["TEMP"].v, "IN", TRUE)
              /\ Converts(source[e]["TEMP"].v, "OUT", TRUE) =>
                    entities[e].attributes["temp_out"] =
                        ConvertedValue(source[e]["TEMP"].v, "OUT", TRUE)
        /\ entities[e].sensor_type = Domus =>
              /\ Converts(source[e], "T", TRUE) =>
                    entities[e].attributes["temperature"] = ConvertedValue(source[e], "T", TRUE)
              /\ Converts(source[e], "H", FALSE) =>
                    entities[e].attributes["humidity"] = ConvertedValue(source[e], "H", FALSE)

====
